---- MODULE Spec2Model ----
(***************************************************************************)
(* State-machine model of the bio core engine (services/core-engine,       *)
(* main.rs): the FNV-1a content hasher, the four derivation handlers       *)
(* (simulate, screen, predict, energy), the two read-only handlers (stats, *)
(* health) and the mutex-protected usage counters they share.              *)
(*                                                                         *)
(* Unsigned machine integers are little-endian byte sequences (a u64 is 8  *)
(* bytes, a u32 is 4), so that 64-bit wrap-around is computed and not      *)
(* assumed away.                                                           *)
(***************************************************************************)
EXTENDS Integers, Sequences, FiniteSets, TLC

(***************************************************************************)
(* Natural numbers as little-endian byte sequences.                        *)
(***************************************************************************)
ByteBase == 256
U64Bytes == 8
U32Bytes == 4

\* n (a natural below 2^31) as k little-endian bytes.
NatToBytes(n, k) ==
    [i \in 1..k |-> IF i > 4 THEN 0 ELSE (n \div (ByteBase ^ (i - 1))) % ByteBase]

\* f, a function on 1..n, as an explicit sequence.
Tuple(f) == f \o <<>>

\* F(v), with v evaluated once.
With(v, F(_)) == CHOOSE r \in {F(x) : x \in {v}} : TRUE

Max(a, b) == IF a >= b THEN a ELSE b

\* a padded with zero bytes, or cut, to k bytes (the low k bytes of a).
Resize(a, k) ==
    With(Tuple(a), LAMBDA x : Tuple([i \in 1..k |-> IF i <= Len(x) THEN x[i] ELSE 0]))

\* The sum of two naturals of the same length, one byte longer (the carry).
\* The carry into byte i is 1 exactly when some lower byte pair overflows and
\* every pair between it and i sums to 255.
AddAligned(x, y) ==
    Tuple([i \in 1..(Len(x) + 1) |->
              LET carry == IF \E j \in 1..(i - 1) :
                                /\ x[j] + y[j] >= ByteBase
                                /\ \A n \in (j + 1)..(i - 1) : x[n] + y[n] = ByteBase - 1
                           THEN 1 ELSE 0
              IN  IF i <= Len(x) THEN (x[i] + y[i] + carry) % ByteBase ELSE carry])

\* The exact sum of two naturals of any length; the result has one byte more
\* than the longer.
NatAdd(a, b) ==
    With(Tuple(a), LAMBDA u :
        With(Tuple(b), LAMBDA v :
            With(Resize(u, Max(Len(u), Len(v))), LAMBDA x :
                With(Resize(v, Max(Len(u), Len(v))), LAMBDA y : AddAligned(x, y)))))

\* a * k for one byte k: the low bytes of the byte products, plus their high
\* bytes one place up.
MulSmall(a, k) ==
    NatAdd([i \in 1..Len(a) |-> (a[i] * k) % ByteBase],
           <<0>> \o [i \in 1..Len(a) |-> (a[i] * k) \div ByteBase])

\* acc + a * b * 256^shift, one byte of a at a time.
RECURSIVE MulAccumulate(_, _, _, _)
MulAccumulate(a, b, shift, acc) ==
    IF a = <<>> \/ acc = <<>> THEN acc
    ELSE MulAccumulate(Tail(a), b, shift + 1,
                       IF Head(a) = 0 THEN acc
                       ELSE NatAdd(acc, [i \in 1..shift |-> 0] \o MulSmall(b, Head(a))))

\* The exact product of two naturals.
NatMul(a, b) == MulAccumulate(a, b, 0, <<0>>)

\* (r * 256^i + the low i bytes of a) mod m, from the high byte down.
RECURSIVE ModAccumulate(_, _, _, _)
ModAccumulate(a, i, r, m) ==
    IF i = 0 \/ r < 0 THEN r
    ELSE ModAccumulate(a, i - 1, (r * ByteBase + a[i]) % m, m)

\* a mod m for a small modulus m (m * 256 must stay below 2^31).
NatMod(a, m) == ModAccumulate(a, Len(a), 0, m)

\* a < b for equal-length a and b: they differ, and at the highest byte where
\* they differ a is smaller.
NatLess(a, b) ==
    \E i \in 1..Len(a) :
        /\ a[i] < b[i]
        /\ \A j \in (i + 1)..Len(a) : a[j] = b[j]

NatLeq(a, b) == a = b \/ NatLess(a, b)

\* The bits of a, least significant first.
NatBits(a) ==
    [i \in 1..(8 * Len(a)) |-> (a[((i - 1) \div 8) + 1] \div (2 ^ ((i - 1) % 8))) % 2]

\* The value of a bit sequence (least significant first); it must be small.
RECURSIVE BitsToNat(_)
BitsToNat(bs) ==
    IF bs = <<>> THEN 0
    ELSE IF Len(bs) = 1 THEN bs[1]
    ELSE LET half == Len(bs) \div 2
         IN  BitsToNat(SubSeq(bs, 1, half))
             + (2 ^ half) * BitsToNat(SubSeq(bs, half + 1, Len(bs)))

\* The number of significant bits.
BitLen(bs) ==
    LET ones == {i \in 1..Len(bs) : bs[i] = 1}
    IN  IF ones = {} THEN 0 ELSE CHOOSE i \in ones : \A j \in ones : j <= i

\* bs + 1 on bit sequences (one bit longer when all bits are set).
BitsInc(bs) ==
    LET zeros == {i \in 1..Len(bs) : bs[i] = 0}
        z     == IF zeros = {} THEN Len(bs) + 1
                 ELSE CHOOSE i \in zeros : \A j \in zeros : i <= j
    IN  [i \in 1..(IF zeros = {} THEN Len(bs) + 1 ELSE Len(bs)) |->
            IF i < z THEN 0 ELSE IF i = z THEN 1 ELSE bs[i]]

(***************************************************************************)
(* u64 arithmetic as the code uses it.                                     *)
(***************************************************************************)
U64(n) == NatToBytes(n, U64Bytes)
U32(n) == NatToBytes(n, U32Bytes)

U64Max == [i \in 1..U64Bytes |-> ByteBase - 1]
U32Max == [i \in 1..U32Bytes |-> ByteBase - 1]

\* `x as u64` for a u32 x.
AsU64(x) == Resize(x, U64Bytes)

\* u64::wrapping_add: the low 64 bits of the sum.
wrapping_add(a, b) == Resize(NatAdd(a, b), U64Bytes)

\* Whether a + b leaves the u64 range.
AddOverflows(a, b) == NatAdd(a, b)[U64Bytes + 1] # 0

\* x ^ y for two bytes, bit by bit.
XorByte(x, y) ==
    LET bit(i) == (((x \div (2 ^ i)) + (y \div (2 ^ i))) % 2) * (2 ^ i)
    IN  bit(0) + bit(1) + bit(2) + bit(3) + bit(4) + bit(5) + bit(6) + bit(7)

\* FNV-1a, 64 bit.  The offset basis 0xcbf29ce484222325 and the prime
\* 0x100000001b3, both little-endian.
FnvOffsetBasis == <<37, 35, 34, 132, 228, 156, 242, 203>>
FnvPrime == <<179, 1, 0, 0, 0, 1, 0, 0>>

\* u64::wrapping_mul: the low 64 bits of the product.
wrapping_mul(a, b) == Resize(NatMul(a, b), U64Bytes)

\* (h is evaluated, by the length test, before the next byte is folded in.)
RECURSIVE FnvFold(_, _)
FnvFold(h, data) ==
    IF data = <<>> \/ Len(h) # U64Bytes THEN h
    ELSE FnvFold(wrapping_mul(FnvPrime, <<XorByte(h[1], Head(data))>> \o Tail(h)),
                 Tail(data))

fnv1a(data) == FnvFold(FnvOffsetBasis, data)

(***************************************************************************)
(* f64 arithmetic of `(lib_size as f64 * 0.005) as usize`.                 *)
(* The f64 nearest to 0.005 is F64Mantissa005 * 2^-F64Exponent005; the     *)
(* product of two f64 is the exact product rounded to F64Precision         *)
(* significant bits, ties to even; `as usize` drops the fraction.          *)
(***************************************************************************)
F64Precision == 53
F64Exponent005 == 60
\* 5764607523034235, little-endian.
F64Mantissa005 == <<123, 20, 174, 71, 225, 122, 20>>

\* bits (least significant first) rounded to F64Precision significant bits.
F64Round(bits) ==
    LET n == BitLen(bits)
    IN  IF n <= F64Precision THEN SubSeq(bits, 1, n)
        ELSE LET s      == n - F64Precision
                 q      == SubSeq(bits, s + 1, n)
                 guard  == bits[s]
                 sticky == \E i \in 1..(s - 1) : bits[i] = 1
                 up     == guard = 1 /\ (sticky \/ q[1] = 1)
             IN  [i \in 1..s |-> 0] \o (IF up THEN BitsInc(q) ELSE q)

\* The mutant of hit_count: 0.005 rounded down to an f64 instead of to nearest.
hit_count_truncated_constant(lib_size) ==
    LET m == <<122, 20, 174, 71, 225, 122, 20>>
        p == F64Round(NatBits(NatMul(lib_size, m)))
    IN  BitsToNat(SubSeq(p, F64Exponent005 + 1, Len(p)))

\* (lib_size as f64 * 0.005) as usize, for a u32 lib_size.
hit_count(lib_size) ==
    LET p == F64Round(NatBits(NatMul(lib_size, F64Mantissa005)))
    IN  BitsToNat(SubSeq(p, F64Exponent005 + 1, Len(p)))

(***************************************************************************)
(* Requests.  An Option is <<>> (None) or <<v>> (Some(v)); a text is its   *)
(* UTF-8 bytes.  `valid` says whether the body decodes into the typed      *)
(* request.                                                                *)
(***************************************************************************)
None == <<>>
Some(v) == <<v>>
unwrap_or(opt, default) == IF opt = None THEN default ELSE opt[1]

DefaultSteps == 10000
DefaultLibrarySize == 10000
SdfFieldResolution == 128
SdfBytesPerResidue == 128
MaxHits == 20

Min(a, b) == IF a <= b THEN a ELSE b

\* format!("{:06}", n): the decimal digits of n, zero-padded to six.
Format06(n) ==
    LET width == IF n < 10 ^ 6 THEN 6
                 ELSE IF n < 10 ^ 7 THEN 7
                 ELSE IF n < 10 ^ 8 THEN 8
                 ELSE IF n < 10 ^ 9 THEN 9 ELSE 10
    IN  [i \in 1..width |-> (n \div (10 ^ (width - i))) % 10]

\* The mutant of ScreenHitAt: the affinity without its + 1.0.
ScreenHitAtNoOffset(h, i) ==
    LET hi == wrapping_add(h, U64(i))
    IN  [ compound_id         |-> Format06(NatMod(hi, 999999)),
          binding_affinity_nm |-> NatMod(hi, 100),
          selectivity_score   |-> 70 + NatMod(hi, 30),
          drug_likeness       |-> 50 + NatMod(wrapping_add(h, U64(i * 7)), 50) ]

\* The i-th hit of a screening (i from 0).  compound_id is the digits after
\* "ALICE-"; selectivity_score and drug_likeness are in hundredths.
ScreenHitAt(h, i) ==
    LET hi == wrapping_add(h, U64(i))
    IN  [ compound_id         |-> Format06(NatMod(hi, 999999)),
          binding_affinity_nm |-> NatMod(hi, 100) + 1,
          selectivity_score   |-> 70 + NatMod(hi, 30),
          drug_likeness       |-> 50 + NatMod(wrapping_add(h, U64(i * 7)), 50) ]

\* simulate, lines 67-72 and the derived fields of line 74.  rmsd_angstrom is
\* in tenths: (h % 30) * 0.1 + 0.5 < 2.0 holds in f64 exactly when h % 30 < 15.
deriveSimulation(r, h) ==
    LET rmsd == NatMod(h, 30) + 5
    IN  [ molecule             |-> r.text,
          simulation_type      |-> unwrap_or(r.simulation_type, "molecular-dynamics"),
          steps                |-> unwrap_or(r.steps, DefaultSteps),
          sdf_field_resolution |-> SdfFieldResolution,
          energy_kcal_mol      |-> (0 - 100) - NatMod(h, 500),
          rmsd_angstrom        |-> rmsd,
          folding_state        |-> IF rmsd < 20 THEN "folded" ELSE "partially_folded" ]

\* screen, lines 79-86 and the derived fields of line 88.  hit_rate_pct is in
\* tenths.
deriveScreening(r, h) ==
    LET lib_size == unwrap_or(r.library_size, U32(DefaultLibrarySize))
        n        == Min(hit_count(lib_size), MaxHits)
    IN  [ target           |-> r.text,
          library_screened |-> lib_size,
          hits             |-> [k \in 1..n |-> ScreenHitAt(h, k - 1)],
          hit_rate_pct     |-> 5 ]

\* predict, lines 93-101 and the derived fields of line 103.  Confidences are
\* in hundredths.
derivePrediction(r, h) ==
    LET seq_len    == Len(r.text)
        confidence == 70 + NatMod(h, 25)
    IN  [ sequence_length          |-> seq_len,
          prediction_type          |-> unwrap_or(r.prediction_type, "structure"),
          structure_confidence     |-> confidence,
          sdf_representation_bytes |-> seq_len * SdfBytesPerResidue,
          secondary_structure      |-> "HHHHCCCEEEEECCCHHHHH",
          domains |-> << [ name |-> "kinase_domain", start |-> 0,
                           end |-> seq_len \div 3, domain_type |-> "catalytic",
                           confidence |-> confidence + 5 ],
                         [ name |-> "binding_domain", start |-> seq_len \div 3,
                           end |-> (seq_len * 2) \div 3, domain_type |-> "regulatory",
                           confidence |-> confidence ] >> ]

\* The mutant of deriveEnergy: the total leaves out the solvation term.
deriveEnergyNoSolvation(r, h) ==
    LET bond     == (0 - 50) - NatMod(h, 100)
        angle    == (0 - 20) - NatMod(h, 50)
        dihedral == (0 - 10) - NatMod(h, 30)
        vdw      == (0 - 30) - NatMod(h, 80)
        elec     == (0 - 15) - NatMod(h, 40)
        solv     == (0 - 5) - NatMod(h, 20)
    IN  [ molecule             |-> r.text,
          force_field          |-> unwrap_or(r.force_field, "amber-ff14"),
          total_energy_kcal    |-> bond + angle + dihedral + vdw + elec,
          bond_energy          |-> bond,
          angle_energy         |-> angle,
          dihedral_energy      |-> dihedral,
          vdw_energy           |-> vdw,
          electrostatic_energy |-> elec,
          solvation_energy     |-> solv ]

\* energy, lines 107-114 and the fields of line 116.  Every term is a whole
\* number of small magnitude, so the f64 sums are exact.
deriveEnergy(r, h) ==
    LET bond     == (0 - 50) - NatMod(h, 100)
        angle    == (0 - 20) - NatMod(h, 50)
        dihedral == (0 - 10) - NatMod(h, 30)
        vdw      == (0 - 30) - NatMod(h, 80)
        elec     == (0 - 15) - NatMod(h, 40)
        solv     == (0 - 5) - NatMod(h, 20)
    IN  [ molecule             |-> r.text,
          force_field          |-> unwrap_or(r.force_field, "amber-ff14"),
          total_energy_kcal    |-> bond + angle + dihedral + vdw + elec + solv,
          bond_energy          |-> bond,
          angle_energy         |-> angle,
          dihedral_energy      |-> dihedral,
          vdw_energy           |-> vdw,
          electrostatic_energy |-> elec,
          solvation_energy     |-> solv ]

(***************************************************************************)
(* The service: worker tasks running the six handlers over the shared      *)
(* AppState.                                                               *)
(***************************************************************************)
NProcs == 2
MaxRequests == 2
MaxSmallLibrary == 450

Procs == 1..NProcs
NoProc == 0

Counters ==
    {"total_simulations", "total_screenings", "total_predictions", "molecules_analyzed"}

UpdateOps == {"simulate", "screen", "predict", "energy"}
ReadOps == {"stats", "health"}

Caffeine == <<99, 97, 102, 102, 101, 105, 110, 101>>
Egfr == <<69, 71, 70, 82>>
Water == <<119, 97, 116, 101, 114>>
Mkvla == <<77, 75, 86, 76, 65>>

SimulateRequest(molecule, simulation_type, steps, temperature_k) ==
    [ op |-> "simulate", valid |-> TRUE, text |-> molecule,
      simulation_type |-> simulation_type, steps |-> steps,
      temperature_k |-> temperature_k ]

ScreenRequest(target_protein, library_size, binding_threshold) ==
    [ op |-> "screen", valid |-> TRUE, text |-> target_protein,
      library_size |-> library_size, binding_threshold |-> binding_threshold ]

PredictRequest(sequence, prediction_type) ==
    [ op |-> "predict", valid |-> TRUE, text |-> sequence,
      prediction_type |-> prediction_type ]

EnergyRequest(molecule, force_field) ==
    [ op |-> "energy", valid |-> TRUE, text |-> molecule, force_field |-> force_field ]

\* A body that does not decode into the handler's typed request (r is what a
\* lenient decoder would have made of it).
Malformed(r) == [r EXCEPT !.valid = FALSE]

\* GET requests carry no body.
Get(op) == [ op |-> op, valid |-> TRUE ]

NoRequest == [ op |-> "none", valid |-> FALSE ]

\* The POST requests the workers are offered.
UpdateRequests ==
    { SimulateRequest(Caffeine, None, None, None),
      ScreenRequest(Egfr, None, None),
      ScreenRequest(Egfr, Some(U32Max), None),
      PredictRequest(Mkvla, None),
      EnergyRequest(Water, None),
      Malformed(ScreenRequest(Egfr, None, None)),
      Malformed(SimulateRequest(Caffeine, None, None, None)) }

Requests == UpdateRequests \cup {Get("stats"), Get("health")}

VARIABLES
    stats,            \* AppState.stats: the four u64 counters
    lock,             \* the task holding the Mutex, or NoProc
    poisoned,         \* whether a task panicked while holding the Mutex
    overflow_checks,  \* the build: whether u64 overflow panics or wraps
    pc,               \* each task's position in its handler
    req,              \* each task's request
    drv,              \* each task's response under construction (handler locals)
    upd,              \* each task's position in its list of counter updates
    reg,              \* each task's loaded counter value during `+=`
    resp,             \* each task's last response
    serial,           \* requests accepted so far
    done_count,       \* history: completed simulate and screen requests
    expected,         \* history: the counters as the completed requests add up
    hist,             \* history: whole counter states during a stats/health call
    d_in,             \* inputs of the derivation functions taken alone
    d_out             \* their output

shared == <<stats, lock, poisoned>>
pure == <<d_in, d_out>>
vars == <<stats, lock, poisoned, overflow_checks, pc, req, drv, upd, reg,
          resp, serial, done_count, expected, hist, d_in, d_out>>

\* main, line 44: all four counters start at zero.
ZeroStats == [c \in Counters |-> U64(0)]

\* The counters after 2^32 + 1 completed screen requests of library_size
\* 4294967295 each and nothing else: (2^32 + 1) * (2^32 - 1) = 2^64 - 1.
LongRunStats ==
    [ total_simulations  |-> U64(0),
      total_screenings   |-> <<1, 0, 0, 0, 1, 0, 0, 0>>,
      total_predictions  |-> U64(0),
      molecules_analyzed |-> U64Max ]

\* The service is watched from its start, or from that later point of a run.
StartStats == {ZeroStats, LongRunStats}

AtRest == {"idle", "done", "rejected", "aborted"}

\* The mutant of HandlerRuns: the handler body runs on any body.
HandlerRunsAlways(r) == TRUE

\* The Json extractor: the handler body runs only when the body decodes.
HandlerRuns(r) == r.valid

\* The mutant of UpdatesOf: energy counts as a simulation too.
UpdatesOfEnergyAsSimulation(r) ==
    CASE r.op = "simulate" ->
            << [counter |-> "total_simulations", delta |-> U64(1)],
               [counter |-> "molecules_analyzed", delta |-> U64(1)] >>
      [] r.op = "screen" ->
            << [counter |-> "total_screenings", delta |-> U64(1)],
               [counter |-> "molecules_analyzed",
                delta |-> AsU64(unwrap_or(r.library_size, U32(DefaultLibrarySize)))] >>
      [] r.op = "predict" ->
            << [counter |-> "total_predictions", delta |-> U64(1)] >>
      [] r.op = "energy" ->
            << [counter |-> "total_simulations", delta |-> U64(1)],
               [counter |-> "molecules_analyzed", delta |-> U64(1)] >>
      [] OTHER -> <<>>

\* The `+=` statements of a handler's critical section, in order
\* (lines 73, 87, 102, 115).
UpdatesOf(r) ==
    CASE r.op = "simulate" ->
            << [counter |-> "total_simulations", delta |-> U64(1)],
               [counter |-> "molecules_analyzed", delta |-> U64(1)] >>
      [] r.op = "screen" ->
            << [counter |-> "total_screenings", delta |-> U64(1)],
               [counter |-> "molecules_analyzed",
                delta |-> AsU64(unwrap_or(r.library_size, U32(DefaultLibrarySize)))] >>
      [] r.op = "predict" ->
            << [counter |-> "total_predictions", delta |-> U64(1)] >>
      [] r.op = "energy" ->
            << [counter |-> "molecules_analyzed", delta |-> U64(1)] >>
      [] OTHER -> <<>>

\* The mutant of Derive: the simulation energy also reads the shared counters.
DeriveReadingCounters(r) ==
    LET h == fnv1a(r.text)
    IN  CASE r.op = "simulate" ->
                [deriveSimulation(r, h) EXCEPT
                    !.energy_kcal_mol = @ - NatMod(stats.total_simulations, 500)]
          [] r.op = "screen"   -> deriveScreening(r, h)
          [] r.op = "predict"  -> derivePrediction(r, h)
          [] r.op = "energy"   -> deriveEnergy(r, h)

\* The handler's local computation before it touches the counters: the hash
\* of the request's text and the values derived from it.
Derive(r) ==
    LET h == fnv1a(r.text)
    IN  CASE r.op = "simulate" -> deriveSimulation(r, h)
          [] r.op = "screen"   -> deriveScreening(r, h)
          [] r.op = "predict"  -> derivePrediction(r, h)
          [] r.op = "energy"   -> deriveEnergy(r, h)

\* Derive, tabulated over the requests offered.
DerivedOf == [r \in UpdateRequests |-> Derive(r)]

\* The mutant of LockFree: lock() never waits.
LockFreeAlways == TRUE

\* s.stats.lock() returns only when no other task holds the guard.
LockFree == lock = NoProc

\* No request has applied some of its counter updates and not the others.
Settled ==
    /\ ~poisoned
    /\ \A q \in Procs : ~(pc[q] \in {"load", "store"} /\ upd[q] > 1)

\* history: while a stats/health call is in progress, collect the whole
\* counter states that occur.
RecordHistory(begun) ==
    hist' = [q \in Procs |->
                LET before == IF q = begun THEN {} ELSE hist[q]
                IN  IF req'[q].op \in ReadOps /\ pc'[q] \notin AtRest
                    THEN IF Settled' THEN before \cup {stats'} ELSE before
                    ELSE {}]

\* A request arrives at a worker and the extractors run; for a body that
\* decodes, so do the handler's lines up to the counter update.
Begin(p, r) ==
    /\ pc[p] \in AtRest
    /\ serial < MaxRequests
    /\ serial' = serial + 1
    /\ req' = [req EXCEPT ![p] = r]
    /\ IF HandlerRuns(r)
       THEN /\ pc' = [pc EXCEPT ![p] = "lock"]
            /\ drv' = [drv EXCEPT ![p] =
                          IF r.op \in UpdateOps THEN Some(DerivedOf[r]) ELSE None]
            /\ resp' = [resp EXCEPT ![p] = None]
       ELSE /\ pc' = [pc EXCEPT ![p] = "rejected"]
            /\ drv' = [drv EXCEPT ![p] = None]
            /\ resp' = [resp EXCEPT ![p] = Some([rejected |-> TRUE])]
    /\ UNCHANGED <<shared, overflow_checks, upd, reg, done_count, expected, pure>>
    /\ RecordHistory(p)

\* s.stats.lock().unwrap(): waits for the guard; panics on a poisoned Mutex.
Lock(p) ==
    /\ pc[p] = "lock"
    /\ LockFree
    /\ IF poisoned
       THEN /\ pc' = [pc EXCEPT ![p] = "aborted"]
            /\ drv' = [drv EXCEPT ![p] = None]
            /\ UNCHANGED <<lock, upd>>
       ELSE /\ lock' = p
            /\ pc' = [pc EXCEPT ![p] = IF req[p].op \in ReadOps THEN "read" ELSE "load"]
            /\ upd' = [upd EXCEPT ![p] = 1]
            /\ drv' = drv
    /\ UNCHANGED <<stats, poisoned, overflow_checks, req, reg, resp,
                   serial, done_count, expected, pure>>
    /\ RecordHistory(NoProc)

\* `counter += delta`, first half: read the counter.
Load(p) ==
    /\ pc[p] = "load"
    /\ reg' = [reg EXCEPT ![p] = stats[UpdatesOf(req[p])[upd[p]].counter]]
    /\ pc' = [pc EXCEPT ![p] = "store"]
    /\ UNCHANGED <<shared, overflow_checks, req, drv, upd, resp, serial,
                   done_count, expected, pure>>
    /\ RecordHistory(NoProc)

\* `counter += delta`, second half: add and write back.  On overflow a build
\* with overflow checks panics (the guard is dropped while unwinding, which
\* poisons the Mutex); a build without them wraps.
Store(p) ==
    /\ pc[p] = "store"
    /\ LET us == UpdatesOf(req[p])
           u  == us[upd[p]]
       IN  IF overflow_checks /\ AddOverflows(reg[p], u.delta)
           THEN /\ pc' = [pc EXCEPT ![p] = "aborted"]
                /\ poisoned' = TRUE
                /\ lock' = NoProc
                /\ drv' = [drv EXCEPT ![p] = None]
                /\ upd' = [upd EXCEPT ![p] = 0]
                /\ stats' = stats
           ELSE /\ stats' = [stats EXCEPT ![u.counter] = wrapping_add(reg[p], u.delta)]
                /\ IF upd[p] < Len(us)
                   THEN /\ pc' = [pc EXCEPT ![p] = "load"]
                        /\ upd' = [upd EXCEPT ![p] = @ + 1]
                   ELSE /\ pc' = [pc EXCEPT ![p] = "unlock"]
                        /\ upd' = [upd EXCEPT ![p] = 0]
                /\ UNCHANGED <<lock, poisoned, drv>>
    /\ reg' = [reg EXCEPT ![p] = U64(0)]
    /\ UNCHANGED <<overflow_checks, req, resp, serial, done_count, expected, pure>>
    /\ RecordHistory(NoProc)

\* stats, line 121, and health, line 62: build the response from the guarded
\* counters.  (status, version and uptime_secs of Health are left out.)
Read(p) ==
    /\ pc[p] = "read"
    /\ LET ops2 == NatAdd(stats.total_simulations, stats.total_screenings)
           ops3 == NatAdd(Resize(ops2, U64Bytes), stats.total_predictions)
           over == ops2[U64Bytes + 1] # 0 \/ ops3[U64Bytes + 1] # 0
       IN  IF req[p].op = "health" /\ overflow_checks /\ over
           THEN /\ pc' = [pc EXCEPT ![p] = "aborted"]
                /\ poisoned' = TRUE
                /\ lock' = NoProc
                /\ drv' = drv
           ELSE /\ pc' = [pc EXCEPT ![p] = "unlock"]
                /\ drv' = [drv EXCEPT ![p] =
                              IF req[p].op = "health"
                              THEN Some([total_ops |-> Resize(ops3, U64Bytes)])
                              ELSE Some(stats)]
                /\ UNCHANGED <<lock, poisoned>>
    /\ upd' = [upd EXCEPT ![p] = 0]
    /\ UNCHANGED <<stats, overflow_checks, req, reg, resp, serial,
                   done_count, expected, pure>>
    /\ RecordHistory(NoProc)

\* What the request is meant to add to a counter.
AssignedDelta(r, c) ==
    CASE r.op = "simulate" /\ c \in {"total_simulations", "molecules_analyzed"} -> U64(1)
      [] r.op = "screen" /\ c = "total_screenings" -> U64(1)
      [] r.op = "screen" /\ c = "molecules_analyzed" ->
            IF r.library_size = None THEN U64(10000) ELSE AsU64(r.library_size[1])
      [] r.op = "predict" /\ c = "total_predictions" -> U64(1)
      [] r.op = "energy" /\ c = "molecules_analyzed" -> U64(1)
      [] OTHER -> U64(0)

\* The guard goes out of scope and the handler returns Json(...).  (The
\* fresh id and elapsed_us of the simulate, screen and predict responses are
\* left out: they are not derived from the request.)
Unlock(p) ==
    /\ pc[p] = "unlock"
    /\ lock' = NoProc
    /\ pc' = [pc EXCEPT ![p] = "done"]
    /\ resp' = [resp EXCEPT ![p] = drv[p]]
    /\ drv' = [drv EXCEPT ![p] = None]
    /\ done_count' = IF req[p].op \in DOMAIN done_count
                     THEN [done_count EXCEPT ![req[p].op] = wrapping_add(@, U64(1))]
                     ELSE done_count
    /\ expected' = [c \in Counters |->
                       Resize(NatAdd(expected[c], AssignedDelta(req[p], c)), U64Bytes + 1)]
    /\ UNCHANGED <<stats, poisoned, overflow_checks, req, upd, reg, serial, pure>>
    /\ RecordHistory(NoProc)

Step(p) ==
    \/ Lock(p)
    \/ Load(p)
    \/ Store(p)
    \/ Read(p)
    \/ Unlock(p)

NoInput == [h |-> U64(0), library_size |-> None]

Init ==
    /\ stats \in StartStats
    /\ lock = NoProc
    /\ poisoned = FALSE
    /\ overflow_checks \in BOOLEAN
    /\ pc = [p \in Procs |-> "idle"]
    /\ req = [p \in Procs |-> NoRequest]
    /\ drv = [p \in Procs |-> None]
    /\ upd = [p \in Procs |-> 0]
    /\ reg = [p \in Procs |-> U64(0)]
    /\ resp = [p \in Procs |-> None]
    /\ serial = 0
    /\ done_count = [simulate |-> stats.total_simulations, screen |-> stats.total_screenings]
    /\ expected = [c \in Counters |-> Resize(stats[c], U64Bytes + 1)]
    /\ hist = [p \in Procs |-> {}]
    /\ d_in = NoInput
    /\ d_out = None

Next ==
    \E p \in Procs :
        \/ \E r \in Requests : Begin(p, r)
        \/ Step(p)

Spec == Init /\ [][Next]_vars

\* Every task that can take a step of its handler eventually does.
FairSpec == Spec /\ \A p \in Procs : WF_vars(Step(p))

(***************************************************************************)
(* The derivation functions taken alone: the hash and the library size are *)
(* inputs, so that every residue and both ends of the u64 range occur.     *)
(***************************************************************************)
MaxSmallHash == 300

\* Hash values at and near both ends of the u64 range, and two real ones.
BoundaryHashes ==
    { U64(0), U64(99), U64Max,
      <<237, 255, 255, 255, 255, 255, 255, 255>>,
      <<236, 255, 255, 255, 255, 255, 255, 255>>,
      <<0, 0, 0, 0, 0, 0, 0, 128>>,
      fnv1a(Egfr), fnv1a(Water) }

SparseLibrarySizes ==
    { None, Some(U32(3799)), Some(U32(3800)), Some(U32(3999)), Some(U32(4000)),
      Some(U32(4001)), Some(U32(10000)), Some(U32(1000001)),
      Some(<<0, 0, 0, 128>>), Some(U32Max) }

DeriveInputs ==
    { [h |-> fnv1a(Egfr), library_size |-> Some(U32(n))] : n \in 0..MaxSmallLibrary }
    \cup { [h |-> U64(n), library_size |-> None] : n \in 0..MaxSmallHash }
    \cup { [h |-> h, library_size |-> l] : h \in BoundaryHashes, l \in SparseLibrarySizes }

DeriveInit ==
    /\ stats = ZeroStats
    /\ lock = NoProc
    /\ poisoned = FALSE
    /\ overflow_checks = FALSE
    /\ pc = [p \in Procs |-> "idle"]
    /\ req = [p \in Procs |-> NoRequest]
    /\ drv = [p \in Procs |-> None]
    /\ upd = [p \in Procs |-> 0]
    /\ reg = [p \in Procs |-> U64(0)]
    /\ resp = [p \in Procs |-> None]
    /\ serial = 0
    /\ done_count = [simulate |-> U64(0), screen |-> U64(0)]
    /\ expected = [c \in Counters |-> Resize(U64(0), U64Bytes + 1)]
    /\ hist = [p \in Procs |-> {}]
    /\ d_in \in DeriveInputs
    /\ d_out = None

Apply(op, out) ==
    /\ d_out = None
    /\ d_out' = Some([op |-> op, out |-> out])
    /\ UNCHANGED <<stats, lock, poisoned, overflow_checks, pc, req, drv, upd, reg,
                   resp, serial, done_count, expected, hist, d_in>>

ApplySimulation ==
    Apply("simulate", deriveSimulation(SimulateRequest(Caffeine, None, None, None), d_in.h))

ApplyScreening ==
    Apply("screen", deriveScreening(ScreenRequest(Egfr, d_in.library_size, None), d_in.h))

ApplyPrediction ==
    Apply("predict", derivePrediction(PredictRequest(Mkvla, None), d_in.h))

ApplyEnergy ==
    Apply("energy", deriveEnergy(EnergyRequest(Water, None), d_in.h))

DeriveNext ==
    \/ ApplySimulation
    \/ ApplyScreening
    \/ ApplyPrediction
    \/ ApplyEnergy

DeriveSpec == DeriveInit /\ [][DeriveNext]_vars

(***************************************************************************)
(* Properties.                                                             *)
(***************************************************************************)
Quiet == \A p \in Procs : pc[p] \in AtRest

CountedRequestInFlight ==
    \E p \in Procs : pc[p] \notin AtRest /\ req[p].op \in {"simulate", "screen"}

\* C1: no counter update is lost: once the simulate and screen requests
\* have completed (none in flight, none cut short), total_simulations is the
\* number of completed simulate requests and total_screenings the number of
\* completed screen requests, in every interleaving.
NoLostUpdate ==
    (~CountedRequestInFlight /\ ~poisoned) =>
        /\ stats.total_simulations = done_count.simulate
        /\ stats.total_screenings = done_count.screen

\* A simulate and a screen request have both completed since the start.
NoLostUpdateWitness ==
    /\ \E p, q \in Procs :
          /\ pc[p] = "done" /\ req[p].op = "simulate"
          /\ pc[q] = "done" /\ req[q].op = "screen"
    /\ stats.total_simulations = U64(1)
    /\ stats.total_screenings = U64(1)

\* C2: each completed request changes exactly the counters assigned to its
\* operation: whenever no request is executing (and none was cut short),
\* every counter is its starting value plus the assigned amounts of the
\* requests completed since, as integers.
FrameEffects ==
    (Quiet /\ ~poisoned) =>
        \A c \in Counters : Resize(stats[c], U64Bytes + 1) = expected[c]

\* C3: the counters are monotonically non-decreasing: no step takes a
\* counter to a value lower than the one it held.
CountersNeverDecrease ==
    [][\A c \in Counters : NatLeq(stats[c], stats'[c])]_vars

\* The whole counter states that occurred during the call contain the one
\* a stats response reports, and one whose sum a health response reports.
SnapshotAtomic ==
    \A p \in Procs :
        pc[p] = "unlock" =>
            /\ req[p].op = "stats" => drv[p][1] \in hist[p]
            /\ req[p].op = "health" =>
                  \E s \in hist[p] :
                      drv[p][1].total_ops =
                          wrapping_add(wrapping_add(s.total_simulations,
                                                    s.total_screenings),
                                       s.total_predictions)

\* C4: a stats response is the state of the four counters at one instant of
\* the call, hence molecules_analyzed >= total_simulations in it; a health
\* response's total_ops is the sum of the three request counters at one
\* instant.
SnapshotConsistent ==
    /\ SnapshotAtomic
    /\ \A p \in Procs :
          (pc[p] = "done" /\ req[p].op = "stats") =>
              NatLeq(resp[p][1].total_simulations, resp[p][1].molecules_analyzed)

\* C5: a request rejected as malformed leaves the counters as they were: no
\* step taken for a request whose body does not decode changes a counter.
RejectedLeavesCounters ==
    [][\A p \in Procs : (~req'[p].valid /\ pc'[p] # pc[p]) => stats' = stats]_vars

\* A simulate request was rejected while another request was in the middle of
\* its counter updates.
RejectedWitness ==
    \E p, q \in Procs :
        /\ pc[p] = "rejected" /\ req[p].op = "simulate"
        /\ pc[q] = "load" /\ upd[q] = 2

HitCountMatches ==
    (d_out # None /\ d_out[1].op = "screen") =>
        LET lib == IF d_in.library_size = None THEN U32(10000) ELSE d_in.library_size[1]
            n   == Len(d_out[1].out.hits)
        IN  /\ IF n = 20
               THEN NatLeq(U32(4000), lib)
               ELSE /\ n < 20
                    /\ NatLeq(U32(200 * n), lib)
                    /\ NatLess(lib, U32(200 * (n + 1)))
            /\ lib = U32(10000) => n = 20
            /\ lib = U32(100) => n = 0

\* A library of exactly 200 compounds was screened and gave one hit.
HitCountWitness ==
    /\ d_out # None
    /\ d_out[1].op = "screen"
    /\ d_in.library_size = Some(U32(200))
    /\ Len(d_out[1].out.hits) = 1

DigitsToNat(d) ==
    d[1] * 100000 + d[2] * 10000 + d[3] * 1000 + d[4] * 100 + d[5] * 10 + d[6]

\* C8, as amended: with h + i taken modulo 2^64, the i-th hit has affinity
\* ((h + i) mod 100) + 1, within [1, 100], and a 6-digit compound number
\* (h + i) mod 999999.
ScreenHitsWrappingSum ==
    (d_out # None /\ d_out[1].op = "screen") =>
        \A i \in 0..(Len(d_out[1].out.hits) - 1) :
            LET hit == d_out[1].out.hits[i + 1]
                sum == Resize(NatAdd(d_in.h, U64(i)), U64Bytes)
            IN  /\ hit.binding_affinity_nm = NatMod(sum, 100) + 1
                /\ hit.binding_affinity_nm \in 1..100
                /\ Len(hit.compound_id) = 6
                /\ DigitsToNat(hit.compound_id) = NatMod(sum, 999999)

\* A full screening was derived from the largest hash value.
ScreenHitsWitness ==
    /\ d_out # None
    /\ d_out[1].op = "screen"
    /\ d_in.h = U64Max
    /\ Len(d_out[1].out.hits) = 20

\* C8, as stated: the same with h + i the integer sum of hash and index.
ScreenHitsIntegerSum ==
    (d_out # None /\ d_out[1].op = "screen") =>
        \A i \in 0..(Len(d_out[1].out.hits) - 1) :
            LET hit == d_out[1].out.hits[i + 1]
                sum == NatAdd(d_in.h, U64(i))
            IN  /\ hit.binding_affinity_nm = NatMod(sum, 100) + 1
                /\ hit.binding_affinity_nm \in 1..100
                /\ Len(hit.compound_id) = 6
                /\ DigitsToNat(hit.compound_id) = NatMod(sum, 999999)

\* C9: an energy response reports six negative terms, each within its
\* range, and a total that is exactly their sum.
EnergyTermsAndTotal ==
    (d_out # None /\ d_out[1].op = "energy") =>
        LET e == d_out[1].out
        IN  /\ e.bond_energy \in (0 - 149)..(0 - 50)
            /\ e.angle_energy \in (0 - 69)..(0 - 20)
            /\ e.dihedral_energy \in (0 - 39)..(0 - 10)
            /\ e.vdw_energy \in (0 - 109)..(0 - 30)
            /\ e.electrostatic_energy \in (0 - 54)..(0 - 15)
            /\ e.solvation_energy \in (0 - 24)..(0 - 5)
            /\ e.total_energy_kcal =
                  e.bond_energy + e.angle_energy + e.dihedral_energy
                  + e.vdw_energy + e.electrostatic_energy + e.solvation_energy

\* An energy response was derived whose bond term is at the low end of its
\* range.
EnergyWitness ==
    /\ d_out # None
    /\ d_out[1].op = "energy"
    /\ d_out[1].out.bond_energy = 0 - 149
    /\ d_out[1].out.total_energy_kcal < 0

\* The guard is held only around the counter update or read, and is free
\* whenever no request is executing.
LockScoped ==
    /\ lock # NoProc => pc[lock] \in {"load", "store", "read", "unlock"}
    /\ Quiet => lock = NoProc

\* C10: no request blocks on another: under fair scheduling every started
\* request eventually returns its response, and the counter lock is held
\* only within the request that took it.
RequestsComplete ==
    /\ \A p \in Procs : (pc[p] \notin AtRest) ~> (pc[p] = "done")
    /\ []LockScoped

====
